---- MODULE Spec2Model ----
(***************************************************************************)
(* Root-Server-Analysis: the temporal aggregation engine                   *)
(* (root_server_analyzer.py) and the NSID delta comparison engine          *)
(* (compare_nsid.py).                                                      *)
(*                                                                         *)
(* Dates are <<year, month, day>>, datetimes <<year, month, day, hour>>.   *)
(* Python strings are TLA+ strings; their order (sorted(), sort_values)    *)
(* is the code point order, tabulated in StrOrder for the strings used.    *)
(***************************************************************************)
EXTENDS Integers, Sequences, FiniteSets, TLC

VARIABLES
    pc,               \* "import": the module body has not run; "serving": callbacks may fire
    raw_sites,        \* the "Sites" entries of data/*.json, in os.listdir order
    today,            \* date.today() at import
    all_sites,        \* root_server_analyzer.all_sites / compare_nsid.all_sites
    months,           \* root_server_analyzer.months (index_to_month is i-1 |-> months[i])
    query,            \* the arguments of the last update_chart call
    fig,              \* what the last update_chart call returned (or raised)
    first_seen_data,  \* compare_nsid.first_seen_data
    comparison_rows,  \* compare_nsid.comparison_rows (comparison_df's rows)
    uploaded_df,      \* compare_nsid.uploaded_df, the process-wide slot
    dropdown,         \* per caller: the options of the nsid-column-dropdown rendered for them
    own,              \* history: per caller, the dataset that caller uploaded last
    lastUploader,     \* history: the caller whose upload filled the slot last
    last,             \* the last compare_uploaded_nsid_column call and its outcome
    delta_days,       \* argument of categorize_delta
    category          \* result of categorize_delta

vars == <<pc, raw_sites, today, all_sites, months, query, fig, first_seen_data,
          comparison_rows, uploaded_df, dropdown, own, lastUploader, last,
          delta_days, category>>

aggVars == <<query, fig>>
cmpVars == <<first_seen_data, comparison_rows, uploaded_df, dropdown, own, lastUploader, last>>
catVars == <<delta_days, category>>

None == "None"

\* bar-chart before update_chart has returned anything
NoFigure == [kind |-> "none", rows |-> <<>>]

-----------------------------------------------------------------------------
(* Generic helpers *)

Max2(a, b) == IF a >= b THEN a ELSE b

Min2(a, b) == IF a <= b THEN a ELSE b

Range(s) == {s[i] : i \in DOMAIN s}

RECURSIVE SumSeq(_)
SumSeq(s) == IF s = <<>> THEN 0 ELSE Head(s) + SumSeq(Tail(s))

\* Code point order of the strings that occur in the sample data.
StrOrder == <<"A", "B", "DE", "FR", "US", "id", "nsid", "root_a.json", "root_b.json",
              "x", "y", "z">>

StrRank(s) == CHOOSE i \in DOMAIN StrOrder : StrOrder[i] = s

\* sorted(S) for a set of strings
RECURSIVE SortedStrs(_)
SortedStrs(S) ==
    IF S = {} THEN <<>>
    ELSE LET m == CHOOSE x \in S : \A y \in S : StrRank(x) <= StrRank(y)
         IN  <<m>> \o SortedStrs(S \ {m})

\* All orderings of the elements of a finite set.
RECURSIVE Perms(_)
Perms(S) ==
    IF S = {} THEN {<<>>}
    ELSE UNION {{<<x>> \o p : p \in Perms(S \ {x})} : x \in S}

\* s[1..n], as DataFrame.head(n) / Series.head(n)
Head_n(s, n) == SubSeq(s, 1, Min2(n, Len(s)))

-----------------------------------------------------------------------------
(* datetime.date *)

DateOf(dt) == <<dt[1], dt[2], dt[3]>>

DateLE(a, b) ==
    \/ a[1] < b[1]
    \/ a[1] = b[1] /\ a[2] < b[2]
    \/ a[1] = b[1] /\ a[2] = b[2] /\ a[3] <= b[3]

DateLT(a, b) == DateLE(a, b) /\ a # b

ReplaceDay(d, day) == <<d[1], d[2], day>>

\* d + relativedelta(months=1), for a first-of-month date
AddMonth(d) == IF d[2] = 12 THEN <<d[1] + 1, 1, d[3]>> ELSE <<d[1], d[2] + 1, d[3]>>

IsLeap(y) == (y % 4 = 0) /\ ((y % 100 # 0) \/ (y % 400 = 0))

DaysInMonth(y, m) ==
    IF m = 2 THEN (IF IsLeap(y) THEN 29 ELSE 28)
    ELSE IF m \in {4, 6, 9, 11} THEN 30 ELSE 31

RECURSIVE DaysBeforeMonth(_, _)
DaysBeforeMonth(y, m) == IF m = 1 THEN 0 ELSE DaysBeforeMonth(y, m - 1) + DaysInMonth(y, m - 1)

DaysBeforeYear(y) == (y - 1) * 365 + ((y - 1) \div 4) - ((y - 1) \div 100) + ((y - 1) \div 400)

ToOrdinal(d) == DaysBeforeYear(d[1]) + DaysBeforeMonth(d[1], d[2]) + d[3]

\* (a - b).days
DaysBetween(a, b) == ToOrdinal(a) - ToOrdinal(b)

-----------------------------------------------------------------------------
(* compare_nsid.categorize_delta *)

Abs(n) == IF n < 0 THEN 0 - n ELSE n

\* months = abs(delta_days) / 30.0 is compared with 12, 6, 4, 2, 0; for an integer
\* delta_days, months > k is abs(delta_days) > 30 * k exactly (30 * k and every
\* quotient n / 30.0 with n <= 30 * k round to at most k in binary64).
MonthsGT(delta, k) == Abs(delta) > 30 * k

MonthsGE(delta, k) == Abs(delta) >= 30 * k

\* categorize_delta with >= where the source has >: every bucket closed below.
categorize_delta_closed_below(delta) ==
    IF MonthsGE(delta, 12) THEN ">1 year"
    ELSE IF MonthsGE(delta, 6) THEN "6-12 months"
    ELSE IF MonthsGE(delta, 4) THEN "4-6 months"
    ELSE IF MonthsGE(delta, 2) THEN "2-4 months"
    ELSE IF MonthsGE(delta, 0) THEN "0-2 months"
    ELSE "Negative"

\* The returned labels carry an emoji prefix and an en dash in the source
\* ("\u2705 0\u20132 months"); the labels here are their ASCII forms.
categorize_delta(delta) ==
    IF MonthsGT(delta, 12) THEN ">1 year"
    ELSE IF MonthsGT(delta, 6) THEN "6-12 months"
    ELSE IF MonthsGT(delta, 4) THEN "4-6 months"
    ELSE IF MonthsGT(delta, 2) THEN "2-4 months"
    ELSE IF MonthsGE(delta, 0) THEN "0-2 months"
    ELSE "Negative"

MaxDelta == 400

InitCat ==
    /\ delta_days \in (0 - MaxDelta)..MaxDelta
    /\ category = None
    /\ pc = "serving"
    /\ raw_sites = <<>> /\ today = <<2023, 1, 1>> /\ all_sites = <<>> /\ months = <<>>
    /\ query = None /\ fig = NoFigure
    /\ first_seen_data = <<>> /\ comparison_rows = <<>> /\ uploaded_df = None
    /\ dropdown = None /\ own = None /\ lastUploader = None /\ last = None

Categorize ==
    /\ category = None
    /\ category' = categorize_delta(delta_days)
    /\ UNCHANGED <<pc, raw_sites, today, all_sites, months, delta_days>>
    /\ UNCHANGED aggVars
    /\ UNCHANGED cmpVars

SpecCat == InitCat /\ [][Categorize]_vars

\* C1: every delta_days < 0, whatever its magnitude, is categorized Negative.
C1_NegativeDeltaIsNegative ==
    (category # None /\ delta_days < 0) => category = "Negative"

\* C2: for delta_days >= 0 the category is 0-2 months up to 60 days, 2-4 months
\* in 61..120, 4-6 months in 121..180, 6-12 months in 181..360 and >1 year above
\* 360; the boundary days 60, 120, 180, 360 fall in the lower bucket.
C2_NonNegativeBuckets ==
    (category # None /\ delta_days >= 0) =>
        /\ (delta_days <= 60) = (category = "0-2 months")
        /\ (60 < delta_days /\ delta_days <= 120) = (category = "2-4 months")
        /\ (120 < delta_days /\ delta_days <= 180) = (category = "4-6 months")
        /\ (180 < delta_days /\ delta_days <= 360) = (category = "6-12 months")
        /\ (delta_days > 360) = (category = ">1 year")

C2_Witness == delta_days = 360 /\ category = "6-12 months"

-----------------------------------------------------------------------------
(* Module body of root_server_analyzer.py: all_sites, sources, countries, months *)

\* A site of all_sites: site.get("Country") (None when the key is absent),
\* site["Created_dt"], site["source"], site.get("Identifiers", []).
Site(country, created, src, ids) ==
    [Country |-> country, Created_dt |-> created, source |-> src, Identifiers |-> ids]

DateTimeLE(a, b) ==
    \/ DateLT(DateOf(a), DateOf(b))
    \/ DateOf(a) = DateOf(b) /\ a[4] <= b[4]

\* bool(site.get("Country")): None and "" are falsy
HasCountry(site) == site.Country # None /\ site.Country # ""

\* sources = sorted(set(site["source"] for site in all_sites))
sources(sites) == SortedStrs({sites[i].source : i \in DOMAIN sites})

\* countries = sorted(set(site["Country"] for site in all_sites if site.get("Country")))
countries(sites) == SortedStrs({sites[i].Country : i \in {j \in DOMAIN sites : HasCountry(sites[j])}})

\* SOURCE_LABELS[fname] = fname.replace("root_", "").replace(".json", "").upper(),
\* tabulated for the file names of the sample data; .get(source, source) otherwise.
SOURCE_LABELS(fname) ==
    CASE fname = "root_a.json" -> "A"
      [] fname = "root_b.json" -> "B"
      [] OTHER -> fname

\* date(2023, 1, 1), the lower bound of the slider
FloorDate == <<2023, 1, 1>>

\* min(site["Created_dt"] for site in all_sites).date().replace(day=1)
min_created(sites) ==
    LET i == CHOOSE k \in DOMAIN sites :
                 \A j \in DOMAIN sites : DateTimeLE(sites[k].Created_dt, sites[j].Created_dt)
    IN  ReplaceDay(DateOf(sites[i].Created_dt), 1)

\* max_created = date.today().replace(day=1)
max_created(t) == ReplaceDay(t, 1)

\* while current <= max_created: months.append(current); current += relativedelta(months=1)
RECURSIVE MonthsLoop(_, _)
MonthsLoop(current, maxc) ==
    IF DateLE(current, maxc) THEN <<current>> \o MonthsLoop(AddMonth(current), maxc)
    ELSE <<>>

\* The start taken with min for max: the index would reach back before the floor.
StartMonth_min(sites) ==
    IF DateLT(min_created(sites), FloorDate) THEN min_created(sites) ELSE FloorDate

\* current = max(min_created, date(2023, 1, 1))
StartMonth(sites) ==
    IF DateLT(min_created(sites), FloorDate) THEN FloorDate ELSE min_created(sites)

BuildMonths(sites, t) == MonthsLoop(StartMonth(sites), max_created(t))

\* The callback's arguments. selected_index is the slider's 0-based position;
\* limit 0 stands for the empty input (None): "if limit and ..." treats both alike.
Query(srcs, idx, order, allow, deny, limit, mode) ==
    [selected_sources |-> srcs, selected_index |-> idx, sort_order |-> order,
     selected_countries |-> allow, blacklisted_countries |-> deny,
     limit |-> limit, view_mode |-> mode]

\* The values app.layout gives the controls before anyone touches them: all
\* sources, the last month, "desc", no country chosen or excluded, no limit, "total".
DefaultQuery(sites, ms) ==
    Query(Range(sources(sites)), Len(ms) - 1, "desc", {}, {}, 0, "total")

\* The module body. min() of no site, and max() of no country count (line 48),
\* raise ValueError: the import fails and the process serves nothing.
LoadAnalyzer ==
    /\ pc = "import"
    /\ IF raw_sites = <<>> \/ \A i \in DOMAIN raw_sites : ~HasCountry(raw_sites[i])
       THEN /\ pc' = "failed"
            /\ UNCHANGED <<all_sites, months, query>>
       ELSE /\ pc' = "serving"
            /\ all_sites' = raw_sites
            /\ months' = BuildMonths(raw_sites, today)
            /\ query' = DefaultQuery(raw_sites, BuildMonths(raw_sites, today))
    /\ UNCHANGED <<raw_sites, today, fig>>
    /\ UNCHANGED cmpVars
    /\ UNCHANGED catVars

-----------------------------------------------------------------------------
(* root_server_analyzer.update_chart *)

\* selected_month at the month's last possible day instead of day 28
Cutoff_month_end(q) == ReplaceDay(months[q.selected_index + 1], 31)

\* selected_month.replace(day=28), selected_month = index_to_month[int(selected_index)]
Cutoff(q) == ReplaceDay(months[q.selected_index + 1], 28)

\* Step 2: the pre-limit set of countries
matching_countries(q) ==
    LET chosen == IF q.selected_countries # {}
                  THEN q.selected_countries
                  ELSE {all_sites[i].Country :
                          i \in {j \in DOMAIN all_sites :
                                   /\ all_sites[j].source \in q.selected_sources
                                   /\ HasCountry(all_sites[j])}}
    IN  chosen \ q.blacklisted_countries

\* Step 3 (and filtered_sites of the detailed view): the indices of all_sites kept
fully_filtered(q) ==
    {i \in DOMAIN all_sites :
        /\ all_sites[i].source \in q.selected_sources
        /\ all_sites[i].Country \in matching_countries(q)
        /\ DateLE(DateOf(all_sites[i].Created_dt), Cutoff(q))}

\* Step 4: Counter(site["Country"] for site in fully_filtered), read with .get(c, 0)
country_counts(q, c) == Cardinality({i \in fully_filtered(q) : all_sites[i].Country = c})

\* Step 5 without the zero fill: only the countries that have a count
FlatFrame_sparse(q) ==
    LET cs == SortedStrs({c \in matching_countries(q) : country_counts(q, c) > 0})
    IN  [i \in DOMAIN cs |-> [Country |-> cs[i], Sites |-> country_counts(q, cs[i])]]

\* Step 5: one row per country of sorted(matching_countries), 0-filled
FlatFrame(q) ==
    LET cs == SortedStrs(matching_countries(q))
    IN  [i \in DOMAIN cs |-> [Country |-> cs[i], Sites |-> country_counts(q, cs[i])]]

\* rows.sort_values(by=..., ascending=asc) with the default kind="quicksort",
\* keys[i] being the sort key of rows[i]: the rows in an order monotone in the key.
\* The order of rows with equal keys is whatever numpy's unstable sort of the build
\* leaves, so every such order is an outcome.
SortOutcomes(rows, keys, asc) ==
    {[i \in DOMAIN rows |-> rows[p[i]]] :
        p \in {pp \in Perms(DOMAIN rows) :
                 \A i \in 1..(Len(rows) - 1) :
                     IF asc THEN keys[pp[i]] <= keys[pp[i + 1]]
                     ELSE keys[pp[i]] >= keys[pp[i + 1]]}}

LimitGiven(q) == q.limit > 0

SitesOf(rows) == [i \in DOMAIN rows |-> rows[i].Sites]

\* The limit taken before the sort: the head of the name-ordered frame, then sorted
FlatSortLimit_limit_first(q) ==
    LET df == IF LimitGiven(q) THEN Head_n(FlatFrame(q), q.limit) ELSE FlatFrame(q)
    IN  SortOutcomes(df, SitesOf(df), q.sort_order = "asc")

\* Steps 6 and 7: df.sort_values(by="Sites", ...), then df.head(limit)
FlatSortLimit(q) ==
    {IF LimitGiven(q) THEN Head_n(df, q.limit) ELSE df :
        df \in SortOutcomes(FlatFrame(q), SitesOf(FlatFrame(q)), q.sort_order = "asc")}

\* breakdown.get((country, source), 0)
breakdown(q, c, src) ==
    Cardinality({i \in fully_filtered(q) : all_sites[i].Country = c /\ all_sites[i].source = src})

\* sorted(S, key=SOURCE_LABELS): the selected sources in the order of their labels
RECURSIVE SortedByLabel(_)
SortedByLabel(S) ==
    IF S = {} THEN <<>>
    ELSE LET m == CHOOSE x \in S :
                      \A y \in S : StrRank(SOURCE_LABELS(x)) <= StrRank(SOURCE_LABELS(y))
         IN  <<m>> \o SortedByLabel(S \ {m})

\* rows of the detailed view, one per (country, source), after
\* df.sort_values(["Country", "Source"]): by country name, then by label
DetailedRows(q) ==
    LET cs == SortedStrs(matching_countries(q))
        ss == SortedByLabel(q.selected_sources)
        n == Len(ss)
    IN  [i \in 1..(Len(cs) * n) |->
            LET c == cs[((i - 1) \div n) + 1]
                src == ss[((i - 1) % n) + 1]
            IN  [Country |-> c, Source |-> SOURCE_LABELS(src), Count |-> breakdown(q, c, src)]]

TotalOf(rows) == [i \in DOMAIN rows |-> rows[i].Total]

\* df.groupby("Country")["Count"].sum(): one total per country, in name order
GroupTotals(rows) ==
    LET cs == SortedStrs({rows[i].Country : i \in DOMAIN rows})
    IN  [k \in DOMAIN cs |->
            [Country |-> cs[k],
             Total |-> SumSeq([i \in DOMAIN rows |->
                                  IF rows[i].Country = cs[k] THEN rows[i].Count ELSE 0])]]

\* country_totals: the group totals after .sort_values(ascending=...)
CountryTotals(q) ==
    LET totals == GroupTotals(DetailedRows(q))
    IN  SortOutcomes(totals, TotalOf(totals), q.sort_order = "asc")

\* The rows of df kept by isin(top_countries), in the order of the categorical
\* Country (country_totals.index), sources in label order within a country. The
\* last sort_values("Country") fixes no order within a country, and px.bar
\* groups the rows by Source in category_orders order, so none shows in the figure.
DetailedTable(q, totals) ==
    LET rows == DetailedRows(q)
        kept == IF LimitGiven(q) THEN Head_n(totals, q.limit) ELSE totals
        rowsOf(c) == SelectSeq(rows, LAMBDA r : r.Country = c)
        Cat[k \in 0..Len(kept)] ==
            IF k = 0 THEN <<>> ELSE Cat[k - 1] \o rowsOf(kept[k].Country)
    IN  Cat[Len(kept)]

NoData == [kind |-> "nodata", rows |-> <<>>]

Raised(exc) == [kind |-> "error", exc |-> exc, rows |-> <<>>]

\* Every figure update_chart(q) can return (one per order of equal counts), or
\* the exception it raises.
update_chart(q) ==
    LET flat == FlatSortLimit(q)
        labels == {SOURCE_LABELS(src) : src \in q.selected_sources}
    IN  IF q.selected_index \notin 0..(Len(months) - 1)
        \* index_to_month[int(selected_index)] of an empty index
        THEN {Raised("KeyError")}
        ELSE IF \E df \in flat : df = <<>>
        THEN {NoData}
        ELSE IF q.view_mode = "detailed"
        THEN IF q.selected_sources = {}
             \* rows == []: pd.DataFrame([]) has no columns and df["Source"] raises
             THEN {Raised("KeyError")}
             ELSE IF Cardinality(labels) < Cardinality(q.selected_sources)
             \* pd.Categorical(categories=all_sources) refuses repeated categories
             THEN {Raised("ValueError")}
             ELSE {[kind |-> "detailed", rows |-> DetailedTable(q, totals)] :
                      totals \in CountryTotals(q)}
        ELSE {[kind |-> "total", rows |-> df] : df \in flat}

MaxLimit == 2

\* Dash calls update_chart with the current value of every Input whenever one of
\* them changes: the queries one change of one control away from q (and q itself,
\* the call made when the page is rendered).
ControlChanges(q) ==
    LET srcs == Range(sources(all_sites))
        cs == Range(countries(all_sites))
    IN  {q}
        \cup {[q EXCEPT !.selected_sources = v] : v \in SUBSET srcs}
        \cup {[q EXCEPT !.selected_index = v] : v \in 0..(Len(months) - 1)}
        \cup {[q EXCEPT !.sort_order = v] : v \in {"asc", "desc"}}
        \cup {[q EXCEPT !.selected_countries = v] : v \in SUBSET cs}
        \cup {[q EXCEPT !.blacklisted_countries = v] : v \in SUBSET cs}
        \cup {[q EXCEPT !.limit = v] : v \in 0..MaxLimit}
        \cup {[q EXCEPT !.view_mode = v] : v \in {"total", "detailed"}}

UpdateChart ==
    /\ pc = "serving"
    /\ \E q \in ControlChanges(query) :
          /\ query' = q
          /\ fig' \in update_chart(q)
    /\ UNCHANGED <<pc, raw_sites, today, all_sites, months>>
    /\ UNCHANGED cmpVars
    /\ UNCHANGED catVars

MaxSites == 3

AggPool ==
    <<Site("DE", <<2023, 3, 1, 0>>, "root_a.json", <<>>),
      Site("US", <<2023, 3, 1, 0>>, "root_a.json", <<>>),
      Site("US", <<2023, 5, 1, 12>>, "root_b.json", <<>>),
      Site(None, <<2023, 3, 28, 0>>, "root_b.json", <<>>),
      Site("DE", <<2023, 4, 28, 6>>, "root_b.json", <<>>),
      Site("US", <<2023, 4, 30, 0>>, "root_a.json", <<>>),
      Site("FR", <<2023, 3, 29, 23>>, "root_a.json", <<>>)>>

\* The runs of at most n consecutive entries of s
Windows(s, n) ==
    {SubSeq(s, i, Min2(i + k - 1, Len(s))) : i \in 1..Len(s), k \in 1..n}

InitAgg ==
    /\ pc = "import"
    /\ raw_sites \in Windows(AggPool, MaxSites)
    /\ today = <<2023, 5, 20>>
    /\ all_sites = <<>> /\ months = <<>>
    /\ query = None /\ fig = NoFigure
    /\ first_seen_data = <<>> /\ comparison_rows = <<>> /\ uploaded_df = None
    /\ dropdown = None /\ own = None /\ lastUploader = None /\ last = None
    /\ delta_days = 0 /\ category = None

NextAgg == LoadAnalyzer \/ UpdateChart

SpecAgg == InitAgg /\ [][NextAgg]_vars

\* Months since year 0, to state "consecutive calendar months" without AddMonth
MonthNo(d) == d[1] * 12 + d[2]

-----------------------------------------------------------------------------
(* What the aggregation claims speak of, stated from the data alone *)

IsTable == fig.kind # "none" /\ fig.kind \in {"total", "detailed", "nodata"}

\* allow list if non-empty, else the countries observed among the records of the
\* selected sources; minus the deny list
Universe ==
    LET observed == {c \in Range(countries(all_sites)) :
                        \E i \in DOMAIN all_sites :
                            /\ all_sites[i].Country = c
                            /\ all_sites[i].source \in query.selected_sources}
    IN  (IF query.selected_countries = {} THEN observed ELSE query.selected_countries)
            \ query.blacklisted_countries

\* created on or before day 28 of MonthIndex[i]
OnOrBeforeDay28(site, i) ==
    LET c == DateOf(site.Created_dt)
        m == months[i + 1]
    IN  \/ MonthNo(c) < MonthNo(m)
        \/ MonthNo(c) = MonthNo(m) /\ c[3] <= 28

\* the records that pass the source, country-universe and cutoff filter at position i
PassingAt(i) ==
    {k \in DOMAIN all_sites :
        /\ all_sites[k].source \in query.selected_sources
        /\ all_sites[k].Country \in Universe
        /\ OnOrBeforeDay28(all_sites[k], i)}

Passing == PassingAt(query.selected_index)

CountOf(c) == Cardinality({k \in Passing : all_sites[k].Country = c})

CountOfAt(c, src) ==
    Cardinality({k \in Passing : all_sites[k].Country = c /\ all_sites[k].source = src})

Shown == {fig.rows[i].Country : i \in DOMAIN fig.rows}

RowCount(r) == IF fig.kind = "total" THEN r.Sites ELSE r.Count

Truncating == query.limit > 0 /\ query.limit < Cardinality(Universe)

\* C4 as stated: in flat mode, whatever the limit, every universe country is in
\* the table exactly once with count >= 0 and the counts sum to the number of
\* records passing the filter.
C4_FlatDenseUnderAnyLimit ==
    (IsTable /\ query.view_mode = "total") =>
        /\ Shown = Universe
        /\ Len(fig.rows) = Cardinality(Universe)
        /\ \A i \in DOMAIN fig.rows : fig.rows[i].Sites >= 0
        /\ SumSeq([i \in DOMAIN fig.rows |-> fig.rows[i].Sites]) = Cardinality(Passing)

\* C4 amended: in flat mode every row is a universe country, met once, with its
\* count >= 0 of passing records; without a limit, or with a limit of at least
\* the universe's size, every universe country is there and the counts sum to the
\* number of passing records; a smaller limit N leaves exactly N countries.
C4_FlatDenseUnlessTruncated ==
    (IsTable /\ query.view_mode = "total") =>
        /\ Shown \subseteq Universe
        /\ Len(fig.rows) = Cardinality(Shown)
        /\ \A i \in DOMAIN fig.rows :
               fig.rows[i].Sites >= 0 /\ fig.rows[i].Sites = CountOf(fig.rows[i].Country)
        /\ Len(fig.rows) = (IF Truncating THEN query.limit ELSE Cardinality(Universe))
        /\ ~Truncating =>
               /\ Shown = Universe
               /\ SumSeq([i \in DOMAIN fig.rows |-> fig.rows[i].Sites]) = Cardinality(Passing)

\* a dense flat table: two countries, one of them without a passing record
C4_Witness ==
    /\ IsTable /\ fig.kind = "total" /\ query.limit = 0
    /\ Cardinality(Universe) = 2
    /\ Len(fig.rows) = 2
    /\ \E i \in DOMAIN fig.rows : fig.rows[i].Sites = 0
    /\ \E i \in DOMAIN fig.rows : fig.rows[i].Sites > 0

\* the count flat mode reports for country c under the same sources, lists and cutoff
FlatCountOf(c) == country_counts([query EXCEPT !.view_mode = "total"], c)

\* C5 (for a query without a limit): the by-source result holds one row for every
\* (country, source) of universe x selected sources, zero-filled, and a country's
\* rows sum to its flat-mode count under the identical query.
C5_BySourceDenseAndSumsToFlat ==
    (fig.kind # "none" /\ query.view_mode = "detailed" /\ query.limit = 0) =>
        /\ fig.kind \in {"detailed", "nodata"}
        /\ {<<fig.rows[i].Country, fig.rows[i].Source>> : i \in DOMAIN fig.rows}
              = {<<c, SOURCE_LABELS(src)>> : c \in Universe, src \in query.selected_sources}
        /\ Len(fig.rows) = Cardinality(Universe) * Cardinality(query.selected_sources)
        /\ \A c \in Shown :
               SumSeq([i \in DOMAIN fig.rows |->
                          IF fig.rows[i].Country = c THEN fig.rows[i].Count ELSE 0])
                  = FlatCountOf(c)

\* the by-source query that raises: a country chosen, no source selected
C5_Witness ==
    /\ fig.kind # "none" /\ fig.kind = "error" /\ fig.exc = "KeyError"
    /\ query.view_mode = "detailed"
    /\ query.selected_sources = {}
    /\ query.selected_countries # {}

C10_CutoffIsDay28OfMonth ==
    (IsTable /\ fig.kind # "nodata") =>
        LET later == (query.selected_index + 1)..(Len(months) - 1)
            at(j) == [query EXCEPT !.selected_index = j]
        IN  /\ \A i \in DOMAIN fig.rows :
                   RowCount(fig.rows[i]) =
                       IF fig.kind = "total" THEN CountOf(fig.rows[i].Country)
                       ELSE Cardinality({k \in Passing :
                                /\ all_sites[k].Country = fig.rows[i].Country
                                /\ SOURCE_LABELS(all_sites[k].source) = fig.rows[i].Source})
            /\ fully_filtered(query) = Passing
            /\ \A j \in later :
                   /\ fully_filtered(at(j)) = PassingAt(j)
                   /\ \A c \in Universe : country_counts(at(j), c) >= country_counts(query, c)
            /\ \A k \in DOMAIN all_sites :
                   (/\ all_sites[k].source \in query.selected_sources
                    /\ all_sites[k].Country \in Universe
                    /\ MonthNo(DateOf(all_sites[k].Created_dt))
                          = MonthNo(months[query.selected_index + 1])
                    /\ all_sites[k].Created_dt[3] > 28)
                   => /\ k \notin fully_filtered(query)
                      /\ \A j \in later : k \in fully_filtered(at(j))

\* records US/a of 2023-03-01 and US/b of 2023-05-01, cutoff 2023-04, both
\* sources, flat mode: US 1
C10_Witness ==
    /\ IsTable /\ fig.kind = "total"
    /\ all_sites = <<Site("US", <<2023, 3, 1, 0>>, "root_a.json", <<>>),
                     Site("US", <<2023, 5, 1, 12>>, "root_b.json", <<>>)>>
    /\ months[query.selected_index + 1] = <<2023, 4, 1>>
    /\ query.selected_sources = {"root_a.json", "root_b.json"}
    /\ fig.rows = <<[Country |-> "US", Sites |-> 1]>>

\* Non-empty sequences over S of length at most n
SeqsUpTo(S, n) == UNION {[1..k -> S] : k \in 1..n}

MaxLoadSites == 2

LoadDateTimes ==
    {<<2022, 11, 15, 8>>, <<2022, 12, 31, 23>>, <<2023, 1, 1, 0>>, <<2023, 1, 31, 12>>,
     <<2023, 2, 10, 0>>, <<2023, 11, 30, 0>>, <<2024, 1, 5, 9>>}

LoadTodays == {<<2023, 1, 15>>, <<2023, 2, 28>>, <<2023, 12, 31>>, <<2024, 1, 3>>, <<2024, 3, 1>>}

InitLoad ==
    /\ pc = "import"
    /\ raw_sites \in SeqsUpTo({Site("US", dt, "root_a.json", <<>>) : dt \in LoadDateTimes}, MaxLoadSites)
    /\ today \in LoadTodays
    \* "Created" records a past event: no site is dated after today
    /\ \A i \in DOMAIN raw_sites : DateLE(DateOf(raw_sites[i].Created_dt), today)
    /\ all_sites = <<>> /\ months = <<>>
    /\ query = None /\ fig = NoFigure
    /\ first_seen_data = <<>> /\ comparison_rows = <<>> /\ uploaded_df = None
    /\ dropdown = None /\ own = None /\ lastUploader = None /\ last = None
    /\ delta_days = 0 /\ category = None

SpecLoad == InitLoad /\ [][LoadAnalyzer]_vars

EarliestDate == min_created(all_sites)

SomeRecordAfterFloor ==
    \E i \in DOMAIN all_sites : DateLT(FloorDate, DateOf(all_sites[i].Created_dt))

ConsecutiveMonthsToToday ==
    /\ \A i \in DOMAIN months : months[i][3] = 1
    /\ \A i \in 1..(Len(months) - 1) : MonthNo(months[i + 1]) = MonthNo(months[i]) + 1
    /\ months # <<>> => months[Len(months)] = ReplaceDay(today, 1)

\* C7 as stated: the index is non-empty whenever a record exists after floorDate,
\* starts at floorDate even if the earliest record postdates floorDate, and holds
\* consecutive first-of-month dates ending at today's month start.
C7_IndexStartsAtFloor ==
    pc = "serving" =>
        /\ SomeRecordAfterFloor => months # <<>>
        /\ (DateLT(FloorDate, EarliestDate) /\ months # <<>>) => months[1] = FloorDate
        /\ ConsecutiveMonthsToToday

\* C7 amended: the index is non-empty exactly when its start month, the later of
\* the earliest record's month start and floorDate, is not after today's month
\* start; it then starts at that month (at floorDate only if no later than the
\* earliest record's month) and holds consecutive first-of-month dates up to
\* today's month start inclusive.
C7_IndexStartsAtLaterOfEarliestAndFloor ==
    pc = "serving" =>
        LET start == IF MonthNo(EarliestDate) >= MonthNo(FloorDate)
                     THEN ReplaceDay(EarliestDate, 1) ELSE FloorDate
        IN  /\ (months # <<>>) = (MonthNo(start) <= MonthNo(today))
            /\ months # <<>> => months[1] = start
            /\ Len(months) = Max2(0, MonthNo(today) - MonthNo(start) + 1)
            /\ ConsecutiveMonthsToToday

\* the earliest record postdates the floor, and the index crosses a year end
C7_Witness ==
    /\ pc = "serving"
    /\ DateLT(FloorDate, EarliestDate)
    /\ Len(months) >= 3
    /\ months[1] = <<2023, 11, 1>>
    /\ months[Len(months)] = <<2024, 1, 1>>

-----------------------------------------------------------------------------
(* compare_nsid.py: the comparison table, the upload slot, the two callbacks *)

Callers == {"A", "B"}

\* A cell read_csv left empty (NaN); dropna() drops it
NaN == "NaN"

\* uploaded_df = {} and uploaded_df = {'data': df}; df maps a column name to its cells
EmptySlot == [present |-> FALSE]

Slot(df) == [present |-> TRUE, data |-> df]

NoCsv == [none |-> <<>>]

\* One row per (site, nsid) with nsid in first_seen_data, in all_sites order
RowsOfSite(site) ==
    LET ids == SelectSeq(site.Identifiers, LAMBDA n : n \in DOMAIN first_seen_data)
    IN  [k \in DOMAIN ids |->
            LET root_created == DateOf(site.Created_dt)
                first_seen == first_seen_data[ids[k]]
                delta == DaysBetween(root_created, first_seen)
            IN  [NSID |-> ids[k],
                 Country |-> IF site.Country = None THEN "Unknown" ELSE site.Country,
                 Root_Created |-> root_created,
                 First_Seen |-> first_seen,
                 Delta |-> delta,
                 Age_Category |-> categorize_delta(delta),
                 Source |-> site.source]]

RECURSIVE BuildComparisonRows(_)
BuildComparisonRows(sites) ==
    IF sites = <<>> THEN <<>>
    ELSE RowsOfSite(Head(sites)) \o BuildComparisonRows(Tail(sites))

\* The module body of compare_nsid.py; first_seen_data holds the parsed
\* data/first_seen.json from the start.
LoadCompare ==
    /\ pc = "import"
    /\ pc' = "serving"
    /\ all_sites' = raw_sites
    /\ comparison_rows' = BuildComparisonRows(raw_sites)
    /\ uploaded_df' = EmptySlot
    /\ UNCHANGED <<raw_sites, today, months, first_seen_data, dropdown, own, lastUploader, last>>
    /\ UNCHANGED aggVars
    /\ UNCHANGED catVars

\* set(comparison_df["NSID"])
CoveredNSIDs == {comparison_rows[i].NSID : i \in DOMAIN comparison_rows}

\* set(df[nsid_col].dropna().astype(str)); the cells are strings, which astype(str) keeps
NsidsOf(col) == {col[i] : i \in {j \in DOMAIN col : col[j] # NaN}}

DeltaOf(rows) == [i \in DOMAIN rows |-> rows[i].Delta]

EmptyResult == [kind |-> "empty"]

CmpRaised(exc) == [kind |-> "error", exc |-> exc]

\* Lines 200-219 on the dataset df: the table and the missing list, one outcome per
\* order sort_values("Delta (days)") can leave rows of equal delta in, or the
\* exception raised. A comparison_df built from no row has no column at all, so
\* comparison_df["NSID"] raises KeyError, as df[nsid_col] does for a column df lacks.
CompareOn(df, nsid_col) ==
    IF nsid_col \notin DOMAIN df
    THEN {CmpRaised("KeyError")}
    ELSE IF comparison_rows = <<>>
    THEN {CmpRaised("KeyError")}
    ELSE LET nsids == NsidsOf(df[nsid_col])
             matches == SelectSeq(comparison_rows, LAMBDA r : r.NSID \in nsids)
         IN  {[kind |-> "table", data |-> m, missing |-> SortedStrs(nsids \ CoveredNSIDs)] :
                 m \in SortOutcomes(matches, DeltaOf(matches), TRUE)}

\* The dataset of the caller's own upload, as a session-scoped slot would hold it
UploadedData_of_caller(c) == own[c]

\* df = uploaded_df["data"]: the one slot, whoever calls
UploadedData(c) == uploaded_df.data

compare_uploaded_nsid_column(c, nsid_col) ==
    IF nsid_col = None \/ ~uploaded_df.present
    THEN {EmptyResult}
    ELSE CompareOn(UploadedData(c), nsid_col)

MaxCsv == 2

CsvPool ==
    <<[nsid |-> <<"x", "y">>, id |-> <<"x", NaN>>],
      [id |-> <<"z", NaN>>],
      [nsid |-> <<"y", "z">>]>>

Csvs == {CsvPool[i] : i \in 1..Min2(MaxCsv, Len(CsvPool))}

\* upload-data contents: nothing, a file read_csv rejects, or a CSV
Contents == {[kind |-> "none"], [kind |-> "malformed"]} \cup {[kind |-> "csv", df |-> d] : d \in Csvs}

\* parse_uploaded_csv for caller c: the slot is overwritten and the caller's page
\* gets a dropdown of the new dataset's columns; a file that cannot be read puts
\* the error text in the dropdown's place; no contents, no update.
ParseUploadedCsv(c) ==
    /\ pc = "serving"
    /\ \E contents \in Contents :
          IF contents.kind = "none"
          THEN UNCHANGED <<uploaded_df, dropdown, own, lastUploader>>
          ELSE IF contents.kind = "malformed"
          THEN /\ dropdown' = [dropdown EXCEPT ![c] = {}]
               /\ UNCHANGED <<uploaded_df, own, lastUploader>>
          ELSE /\ uploaded_df' = Slot(contents.df)
               /\ dropdown' = [dropdown EXCEPT ![c] = DOMAIN contents.df]
               /\ own' = [own EXCEPT ![c] = contents.df]
               /\ lastUploader' = c
    /\ UNCHANGED <<pc, raw_sites, today, all_sites, months, first_seen_data, comparison_rows, last>>
    /\ UNCHANGED aggVars
    /\ UNCHANGED catVars

NoCompare ==
    [caller |-> None, nsid_col |-> None, uploader |-> None, slot |-> EmptySlot,
     owns |-> [c \in Callers |-> NoCsv], outcome |-> [kind |-> "none"]]

\* The dropdown rendered for caller c takes a value (or None, when it is rendered
\* or cleared) and compare_uploaded_nsid_column runs. last keeps the call, its
\* outcome, and the slot and upload history as they were at the call.
CompareUploadedNsidColumn(c) ==
    /\ pc = "serving"
    /\ dropdown[c] # {}
    /\ \E nsid_col \in dropdown[c] \cup {None} :
          \E out \in compare_uploaded_nsid_column(c, nsid_col) :
              last' = [caller |-> c, nsid_col |-> nsid_col, uploader |-> lastUploader,
                       slot |-> uploaded_df, owns |-> own, outcome |-> out]
    /\ UNCHANGED <<pc, raw_sites, today, all_sites, months, first_seen_data, comparison_rows,
                   uploaded_df, dropdown, own, lastUploader>>
    /\ UNCHANGED aggVars
    /\ UNCHANGED catVars

MaxCmpSites == 2

CmpPool ==
    <<Site("US", <<2023, 4, 1, 0>>, "root_a.json", <<"x">>),
      Site(None, <<2022, 12, 1, 10>>, "root_b.json", <<"x", "y">>),
      Site("US", <<2023, 4, 1, 0>>, "root_b.json", <<"x">>)>>

\* identifier -> first-seen date; "z" is on no site of CmpPool
Registries ==
    {<<>>,
     [x |-> <<2023, 1, 1>>],
     [x |-> <<2023, 1, 1>>, z |-> <<2023, 2, 15>>]}

InitCmp ==
    /\ pc = "import"
    /\ raw_sites \in Windows(CmpPool, MaxCmpSites) \cup {<<>>}
    /\ first_seen_data \in Registries
    /\ today = <<2024, 6, 1>>
    /\ all_sites = <<>> /\ months = <<>>
    /\ query = None /\ fig = NoFigure
    /\ comparison_rows = <<>> /\ uploaded_df = EmptySlot
    /\ dropdown = [c \in Callers |-> {}]
    /\ own = [c \in Callers |-> NoCsv]
    /\ lastUploader = None
    /\ last = NoCompare
    /\ delta_days = 0 /\ category = None

NextCmp ==
    \/ LoadCompare
    \/ \E c \in Callers : ParseUploadedCsv(c)
    \/ \E c \in Callers : CompareUploadedNsidColumn(c)

SpecCmp == InitCmp /\ [][NextCmp]_vars

\* the identifiers with at least one row of the comparison table: on some site
\* record and in the registry
CoveredIdentifiers ==
    {n \in DOMAIN first_seen_data :
        \E i \in DOMAIN all_sites : n \in Range(all_sites[i].Identifiers)}

Compared == last.outcome.kind # "none"

\* the column asked for is a column of the dataset the slot held at the call
ColumnInSlot == last.nsid_col # None /\ last.slot.present /\ last.nsid_col \in DOMAIN last.slot.data

\* the uploaded identifier set: the non-empty cells of the chosen column
UploadedIdentifiers ==
    {last.slot.data[last.nsid_col][j] : j \in {k \in DOMAIN last.slot.data[last.nsid_col] :
                                                  last.slot.data[last.nsid_col][k] # NaN}}

\* C3: for every uploaded identifier set U the missing list is U minus
\* coveredIdentifiers, sorted: empty when U is within coveredIdentifiers, all of U
\* when U is disjoint from it, and holding an identifier of the registry that is
\* on no site record.
C3_MissingIsUploadedMinusCovered ==
    (Compared /\ ColumnInSlot) =>
        /\ last.outcome.kind = "table"
        /\ last.outcome.missing = SortedStrs(UploadedIdentifiers \ CoveredIdentifiers)
        /\ UploadedIdentifiers \subseteq CoveredIdentifiers => last.outcome.missing = <<>>
        /\ UploadedIdentifiers \cap CoveredIdentifiers = {}
              => Range(last.outcome.missing) = UploadedIdentifiers

\* the uploaded set is disjoint from coveredIdentifiers, which is empty: the call raises
C3_Witness ==
    /\ Compared /\ ColumnInSlot
    /\ CoveredIdentifiers = {}
    /\ UploadedIdentifiers # {}
    /\ last.outcome.kind = "error"

\* C8: the slot is process-wide and the last write wins: whoever asks, a comparison
\* is computed from the dataset of the caller who uploaded last, also when the
\* asking caller uploaded another dataset before and chose the column from it.
C8_ComparisonUsesLastUpload ==
    (Compared /\ last.nsid_col # None) =>
        /\ last.uploader \in Callers
        /\ last.slot = Slot(last.owns[last.uploader])
        /\ last.outcome \in CompareOn(last.owns[last.uploader], last.nsid_col)

\* upload(A), upload(B), selectColumn(A): A gets a table that is not one its own
\* dataset gives
C8_Witness ==
    /\ Compared
    /\ last.caller = "A" /\ last.uploader = "B"
    /\ last.owns["A"] # NoCsv
    /\ last.owns["A"] # last.owns["B"]
    /\ last.nsid_col \in DOMAIN last.owns["A"]
    /\ last.outcome.kind = "table"
    /\ last.outcome \notin CompareOn(last.owns["A"], last.nsid_col)

\* C9: a comparison asked with no column selected, with no dataset uploaded, or
\* with a column that the dataset now in the slot does not have, yields an empty
\* result, not an error.
C9_UnknownColumnYieldsEmptyResult ==
    (Compared /\ ~ColumnInSlot) => last.outcome.kind = "empty"

\* A chose "nsid" from its own upload, B's upload without that column replaced it
C9_Witness ==
    /\ Compared /\ ~ColumnInSlot
    /\ last.caller = "A" /\ last.uploader = "B"
    /\ last.nsid_col = "nsid"
    /\ last.outcome = CmpRaised("KeyError")

====
